---- MODULE Spec2Model ----
(***************************************************************************)
(* A model of the driver_shim plugin: the device provider (Driver.cpp),    *)
(* the TrackedDeviceAdded hook (ShimDriverManager.cpp) and the device      *)
(* decorator HmdShimDriver with its UpdateThread (HmdShimDriver.cpp).      *)
(*                                                                         *)
(* Spec      the lifecycle of one HmdShimDriver: a host thread that calls  *)
(*           Activate and Deactivate in any order, one call at a time,     *)
(*           interleaved step by step with the worker thread(s).           *)
(* SpecProvider  the provider from process start: HmdDriverFactory,        *)
(*           Driver::Init and Driver::Cleanup under every answer of the    *)
(*           host and of the sensor service.                               *)
(* SpecHook  the provider brought up on supported hardware and the hooked  *)
(*           TrackedDeviceAdded under every call a vendor driver can make. *)
(* SpecProbe SpecHook with a constructor that probes for the capability    *)
(*           and may throw EyeTrackerNotSupportedException.                *)
(* SpecForward  the lifecycle on one device index with EnterStandby,       *)
(*           GetComponent, GetPose and DebugRequest called between the     *)
(*           lifecycle calls.                                              *)
(* SpecLive  the lifecycle on one device index under fair scheduling of    *)
(*           the worker and of the host thread inside Deactivate.          *)
(* SpecTeardown  the lifecycle on one device index interleaved with the    *)
(*           provider's Cleanup and with further calls of the hook.        *)
(***************************************************************************)
EXTENDS Integers, Sequences, FiniteSets, TLC

(* ------------------------------ bounds --------------------------------- *)
\* Activate calls the host issues on the decorator.
MaxCycles == 2
\* Worker threads that can exist at once (the second one only when Activate
\* is called again while a worker is still running).
MaxThreads == 2
\* Saturation of the counter of input updates made after the flag was cleared.
MaxCount == 2

\* Driver::Init calls the host makes.
MaxInits == 2
\* Calls of the hooked TrackedDeviceAdded.
MaxHookCalls == 2

(* --------------------------- program constants ------------------------- *)
\* info.VendorId == 0x34A4
PimaxVendorId == 13476
\* info.ProductId == 0x0012, the Pimax Crystal
CrystalProductId == 18
\* info.ProductId == 0x0040, the Pimax Crystal Super
CrystalSuperProductId == 64
\* vr::k_unTrackedDeviceIndexInvalid, 0xFFFFFFFF: written as the same 32-bit pattern
\* read as a signed number, which no valid index equals.
k_unTrackedDeviceIndexInvalid == -1
\* 1.f in the fixed-point arithmetic that stands for float.
FixedOne == 100

NoShim == [m_shimmedDevice |-> "null", m_pvr |-> 0, m_pvrSession |-> 0]
\* The device indices the host hands to Activate.
DeviceIndices == {0, 1}
\* vr::EVRInitError values the wrapped device's Activate returns.
InitErrors == {"VRInitError_None", "VRInitError_Driver_Failed", "VRInitError_Init_HmdNotFound"}
Threads == 1..MaxThreads

VARIABLES
    \* ---- HmdShimDriver (HmdShimDriver.cpp:188-197)
    shim,                    \* the const members, NoShim before construction
    m_deviceIndex,
    m_active,
    m_updateThread,          \* the thread the handle owns, 0 when not joinable
    m_eyeTrackingComponent,
    \* ---- the host thread inside Activate or Deactivate
    hpc,                     \* "idle" or the statement it is about to execute
    unObjectId,              \* Activate's argument
    wasActive,               \* what m_active.exchange(false) returned
    tmpThread,               \* the temporary std::thread of line 78, 0 if none
    aborted,                 \* std::terminate was called
    \* ---- the worker threads
    wpc,                     \* per thread: "none" or its position in UpdateThread
    wdata,                   \* per thread: the local vr::VREyeTrackingData_t data
    wcycle,                  \* per thread: the Activate call that spawned it
    wstate,                  \* per thread: the locals result and state.TimeInSeconds
    \* ---- the wrapped device and the host, as the decorator's calls leave them
    shimRet,                 \* what m_shimmedDevice->Activate returned last
    shimDeactivated,         \* m_shimmedDevice->Deactivate ran since the last Activate
    retActivate,             \* what HmdShimDriver::Activate returned last
    lastCall,                \* the last lifecycle call the host issued
    prevCall,                \* the lifecycle call the host issued before that one
    actCycle,                \* Activate calls so far
    fwdCycle,                \* the Activate call that last forwarded to the wrapped device
    compCycle,               \* the Activate call that last set m_eyeTrackingComponent
    nComponents,             \* input components the host created
    propContainers,          \* containers with Prop_SupportsXrEyeGazeInteraction_Bool
    published,               \* the last UpdateEyeTrackingComponent call
    updAfterClear,           \* UpdateEyeTrackingComponent calls since the flag was cleared
    fwd,                     \* the last EnterStandby/GetComponent/GetPose/DebugRequest call
    \* ---- Driver.cpp: the provider singleton and its members (lines 38, 125-127)
    thisDriver,              \* whether the unique_ptr holds a Driver
    nDrivers,                \* Driver objects constructed so far; the last is the one held
    unloaded,                \* the plugin's static destructors have run
    lastFactory,             \* the last HmdDriverFactory call: arguments, outcome
    m_isLoaded,
    m_pvr,                   \* Driver::m_pvr, 0 for nullptr
    m_pvrSession,            \* Driver::m_pvrSession, 0 for nullptr
    driverContext,           \* whether the server driver context is initialised
    \* ---- ShimDriverManager.cpp: the globals (lines 32-33) and the detour
    g_pvr,
    g_pvrSession,
    installs,                \* DetourMethodAttach calls so far
    ctorProbe,               \* whether the constructor probes for the capability
    \* ---- the sensor service and the host, as the calls leave them
    nEnv,                    \* environment handles pvr_initialise created (1..nEnv)
    nSess,                   \* session handles pvr_createSession created (1..nSess)
    envReleases,             \* per handle: pvr_shutdown calls on it
    sessReleases,            \* per handle: pvr_destroySession calls on it
    lastCleanup,             \* the sensor-service calls of the last Cleanup, in order
    initCalls,               \* Driver::Init calls so far
    lastInit,                \* the last Driver::Init call: inputs, outcome
    hookCalls,               \* calls of the hooked TrackedDeviceAdded so far
    origCalls,               \* calls of the original TrackedDeviceAdded so far
    nShims,                  \* HmdShimDriver objects allocated so far
    lastHook                 \* the last hooked call: arguments, what was passed on, results

shimVars == <<shim, m_deviceIndex, m_active, m_updateThread, m_eyeTrackingComponent>>
hostVars == <<hpc, unObjectId, wasActive, tmpThread, aborted>>
workerVars == <<wpc, wdata, wcycle, wstate>>
obsVars == <<shimRet, shimDeactivated, retActivate, lastCall, prevCall, actCycle, fwdCycle,
             compCycle, nComponents, propContainers, published, updAfterClear, fwd>>
memberVars == <<m_deviceIndex, m_active, m_updateThread, m_eyeTrackingComponent>>
providerVars == <<thisDriver, nDrivers, unloaded, lastFactory, m_isLoaded, m_pvr, m_pvrSession, driverContext, nEnv, nSess,
                  envReleases, sessReleases, lastCleanup, initCalls, lastInit>>
hookVars == <<g_pvr, g_pvrSession, installs, ctorProbe, hookCalls, origCalls, nShims, lastHook>>
sysVars == <<providerVars, hookVars>>
vars == <<shimVars, hostVars, workerVars, obsVars, sysVars>>

(* ------------------------- Sample Transform ---------------------------- *)
\* vr::VREyeTrackingData_t data{} (line 128)
ZeroData == [vGazeTarget |-> <<0, 0, 0>>, bValid |-> FALSE, bTracked |-> FALSE, bActive |-> FALSE]
NoSample == [handle |-> 0, data |-> ZeroData, calls |-> 0]
\* No pure forward called yet.
NoForward == [op |-> "none", args |-> "none", shimOp |-> "none", shimArgs |-> "none",
              shimCalls |-> 0, shimRet |-> "none", ret |-> "none"]
\* No pvrEyeTrackingInfo state in scope (outside lines 147-180).
NoState == [result |-> "none", TimeInSeconds |-> 0]

PvrResults == {"pvr_success", "pvr_failed"}
\* state.TimeInSeconds: negative, zero, positive
TimesInSeconds == {-1, 0, 1}
\* state.GazeTan[eye].x and .y
GazeTanX == {0, 1}
GazeTanY == {0}
\* What pvr_getEyeTrackingInfo hands back.
SensorSamples == [result : PvrResults, TimeInSeconds : TimesInSeconds,
                  lx : GazeTanX, ly : GazeTanY, rx : GazeTanX, ry : GazeTanY]

\* sinf(atanf(s / 2.f)) and cosf(atanf(s / 2.f)) in fixed point, s the sum of both eyes.
SinAtanHalf(s) == CASE s = 0 -> 0 [] s = 1 -> 45 [] s = 2 -> 71
CosAtanHalf(s) == CASE s = 0 -> 100 [] s = 1 -> 89 [] s = 2 -> 71

ISqrt(n) == CHOOSE r \in 0..(2 * FixedOne) : r * r <= n /\ n < (r + 1) * (r + 1)
\* Division rounding toward zero, as a float rounded to the fixed-point grid.
DivTrunc(a, b) == IF a < 0 THEN -((-a) \div b) ELSE a \div b
\* DirectX::XMVector3Normalize
XMVector3Normalize(v) ==
    LET len == ISqrt(v[1] * v[1] + v[2] * v[2] + v[3] * v[3])
    IN  IF len = 0 THEN v
        ELSE <<DivTrunc(v[1] * FixedOne, len), DivTrunc(v[2] * FixedOne, len),
               DivTrunc(v[3] * FixedOne, len)>>

\* Lines 164-173: the unit vector of the averaged gaze angles.
GazeVector(s) ==
    LET sh == SinAtanHalf(s.lx + s.rx)
        ch == CosAtanHalf(s.lx + s.rx)
        sv == SinAtanHalf(s.ly + s.ry)
        cv == CosAtanHalf(s.ly + s.ry)
    IN  XMVector3Normalize(<<DivTrunc(sh * cv, FixedOne), sv, -DivTrunc(ch * cv, FixedOne)>>)

\* The test with the timestamp left out.
IsEyeTrackingDataAvailable_ResultOnly(s) == s.result = "pvr_success"

\* Line 154.
IsEyeTrackingDataAvailable(s) == s.result = "pvr_success" /\ s.TimeInSeconds > 0

\* Lines 155-179: what one cycle stores into data.
SampleTransform(s, data) ==
    IF IsEyeTrackingDataAvailable(s)
    THEN [data EXCEPT !.vGazeTarget = GazeVector(s),
                      !.bValid = TRUE, !.bTracked = TRUE, !.bActive = TRUE]
    ELSE [data EXCEPT !.vGazeTarget = <<0, 0, -FixedOne>>,
                      !.bValid = FALSE, !.bTracked = FALSE, !.bActive = FALSE]

(* --------------------------- program order ----------------------------- *)
\* Activate with the worker spawned before the input component is acquired.
ActivateOrder_SpawnBeforeCreate ==
    <<"a_forward", "a_index", "a_prop", "a_active", "a_spawn", "a_assign", "a_create", "a_return">>

\* The statements of HmdShimDriver::Activate, in program order.
ActivateOrder ==
    <<"a_forward", "a_index", "a_prop", "a_create", "a_active", "a_spawn", "a_assign", "a_return">>

\* Deactivate without the join: the worker is left to notice the flag on its own.
DeactivateOrder_NoJoin == <<"d_exchange", "d_reset", "d_forward">>

\* Deactivate forwarding to the wrapped device before the worker is joined.
DeactivateOrder_ForwardFirst == <<"d_exchange", "d_forward", "d_join", "d_reset">>

\* Deactivate leaving the device index as Activate set it.
DeactivateOrder_NoReset == <<"d_exchange", "d_join", "d_forward">>

\* The statements of HmdShimDriver::Deactivate, in program order.
DeactivateOrder == <<"d_exchange", "d_join", "d_reset", "d_forward">>

\* The loop body without the test of the activity flag.
UpdateThreadLoop_NoCheck == <<"w_sleep", "w_query", "w_update">>

\* The body of the while (true) loop of UpdateThread, in program order.
UpdateThreadLoop == <<"w_sleep", "w_check", "w_query", "w_update">>

IndexOf(seq, l) == CHOOSE i \in 1..Len(seq) : seq[i] = l
\* The statement after l; the call returns after the last one.
NextLabel(seq, l) == IF IndexOf(seq, l) = Len(seq) THEN "idle" ELSE seq[IndexOf(seq, l) + 1]
\* The statement after l in a loop body.
NextInLoop(seq, l) == IF IndexOf(seq, l) = Len(seq) THEN seq[1] ELSE seq[IndexOf(seq, l) + 1]

Min(a, b) == IF a < b THEN a ELSE b

(* --------------------------- the initial state ------------------------- *)
\* HmdShimDriver's member initializers (lines 192-197), no thread running.
InitMembers ==
    /\ m_deviceIndex = k_unTrackedDeviceIndexInvalid
    /\ m_active = FALSE
    /\ m_updateThread = 0
    /\ m_eyeTrackingComponent = 0
    /\ hpc = "idle"
    /\ unObjectId = k_unTrackedDeviceIndexInvalid
    /\ wasActive = FALSE
    /\ tmpThread = 0
    /\ aborted = FALSE
    /\ wpc = [t \in Threads |-> "none"]
    /\ wdata = [t \in Threads |-> ZeroData]
    /\ wcycle = [t \in Threads |-> 0]
    /\ wstate = [t \in Threads |-> NoState]
    /\ shimRet = "none"
    /\ shimDeactivated = FALSE
    /\ retActivate = "none"
    /\ lastCall = "none"
    /\ prevCall = "none"
    /\ actCycle = 0
    /\ fwdCycle = 0
    /\ compCycle = 0
    /\ nComponents = 0
    /\ propContainers = {}
    /\ published = NoSample
    /\ updAfterClear = 0
    /\ fwd = NoForward

\* The sensor-service handles that can exist: 0 is nullptr.
Handles == 0..MaxInits

NoInit == [ctx |-> "none", gate |-> FALSE, r1 |-> "none", r2 |-> "none", r3 |-> "none",
           vendor |-> -1, product |-> -1, installed |-> FALSE, ret |-> "none"]
NoFactory == [name |-> "none", pReturnCode |-> "none", created |-> FALSE, ret |-> 0,
              returnCode |-> "unwritten"]
NoDevice == [kind |-> "none", id |-> "null", pvr |-> 0, session |-> 0]
NoArgs == [driverHost |-> "none", serial |-> "none", cls |-> "none", pDriver |-> NoDevice]
NoHook == [args |-> NoArgs, caller |-> "none", unsupported |-> FALSE, passed |-> NoArgs,
           created |-> FALSE, origCalled |-> 0, origRet |-> FALSE, ret |-> FALSE]

\* The process right after the plugin is loaded: the static initializers of
\* Driver.cpp:38 and ShimDriverManager.cpp:32-33, nothing called yet.
InitProcess ==
    /\ thisDriver = FALSE
    /\ nDrivers = 0
    /\ unloaded = FALSE
    /\ lastFactory = NoFactory
    /\ m_isLoaded = FALSE
    /\ m_pvr = 0
    /\ m_pvrSession = 0
    /\ driverContext = FALSE
    /\ g_pvr = 0
    /\ g_pvrSession = 0
    /\ installs = 0
    /\ nEnv = 0
    /\ nSess = 0
    /\ envReleases = [h \in Handles |-> 0]
    /\ sessReleases = [h \in Handles |-> 0]
    /\ lastCleanup = <<>>
    /\ initCalls = 0
    /\ lastInit = NoInit
    /\ hookCalls = 0
    /\ origCalls = 0
    /\ nShims = 0
    /\ lastHook = NoHook

\* A device object of the vendor driver, and the decorator around one.
Device(id) == [kind |-> "device", id |-> id, pvr |-> 0, session |-> 0]
HmdShimDriver(dev, pvr, session) ==
    [kind |-> "HmdShimDriver", id |-> dev.id, pvr |-> pvr, session |-> session]

\* The process once Driver::Init has passed the gate on a Pimax Crystal and the vendor
\* driver has registered its HMD through the hook: one decorator exists, not yet
\* activated. SpecHook reaches exactly this state.
Decorated ==
    /\ shim = [m_shimmedDevice |-> "devA", m_pvr |-> 1, m_pvrSession |-> 1]
    /\ thisDriver = TRUE
    /\ nDrivers = 1
    /\ unloaded = FALSE
    /\ lastFactory = [name |-> "IServerTrackedDeviceProvider_004", pReturnCode |-> "out",
                      created |-> TRUE, ret |-> 1, returnCode |-> "unwritten"]
    /\ m_isLoaded = TRUE
    /\ m_pvr = 1
    /\ m_pvrSession = 1
    /\ driverContext = TRUE
    /\ g_pvr = 1
    /\ g_pvrSession = 1
    /\ installs = 1
    /\ ctorProbe = FALSE
    /\ nEnv = 1
    /\ nSess = 1
    /\ envReleases = [h \in Handles |-> 0]
    /\ sessReleases = [h \in Handles |-> 0]
    /\ lastCleanup = <<>>
    /\ initCalls = 1
    /\ lastInit = [ctx |-> "VRInitError_None", gate |-> TRUE, r1 |-> "pvr_success",
                   r2 |-> "pvr_success", r3 |-> "pvr_success", vendor |-> PimaxVendorId,
                   product |-> CrystalProductId, installed |-> TRUE,
                   ret |-> "VRInitError_None"]
    /\ hookCalls = 1
    /\ origCalls = 1
    /\ nShims = 1
    /\ lastHook = [args |-> [driverHost |-> "hostA", serial |-> "serialA",
                             cls |-> "TrackedDeviceClass_HMD", pDriver |-> Device("devA")],
                   caller |-> "driver_aapvr.dll", unsupported |-> FALSE,
                   passed |-> [driverHost |-> "hostA", serial |-> "serialA",
                               cls |-> "TrackedDeviceClass_HMD",
                               pDriver |-> HmdShimDriver(Device("devA"), 1, 1)],
                   created |-> TRUE, origCalled |-> 1, origRet |-> TRUE, ret |-> TRUE]

\* Spec starts with the decorator constructed (lines 41-42) and not yet activated.
Init == Decorated /\ InitMembers

\* SpecProvider and SpecHook start at process start, with the constructor of
\* HmdShimDriver.cpp:41-52, which has no probe.
InitStart == shim = NoShim /\ InitMembers /\ InitProcess /\ ctorProbe = FALSE

\* SpecProbe starts at process start, with a constructor that probes.
InitProbe == shim = NoShim /\ InitMembers /\ InitProcess /\ ctorProbe = TRUE

Constructed == shim # NoShim
HostIdle == Constructed /\ ~aborted /\ hpc = "idle"
HostAt(l) == Constructed /\ ~aborted /\ hpc = l

(* ------------------------ HmdShimDriver::Activate ---------------------- *)
\* The host calls Activate(id).
Activate_Call(id) ==
    /\ HostIdle
    /\ actCycle < MaxCycles
    /\ hpc' = ActivateOrder[1]
    /\ unObjectId' = id
    /\ lastCall' = "Activate"
    /\ prevCall' = lastCall
    /\ actCycle' = actCycle + 1
    /\ UNCHANGED <<shimVars, wasActive, tmpThread, aborted, workerVars, shimRet,
                   shimDeactivated, retActivate, fwdCycle, compCycle, nComponents,
                   propContainers, published, updAfterClear, fwd>>
    /\ UNCHANGED sysVars

\* Line 59: m_shimmedDevice->Activate(unObjectId); the result is dropped.
Activate_Forward(e) ==
    /\ HostAt("a_forward")
    /\ shimRet' = e
    /\ shimDeactivated' = FALSE
    /\ fwdCycle' = actCycle
    /\ hpc' = NextLabel(ActivateOrder, "a_forward")
    /\ UNCHANGED <<shimVars, unObjectId, wasActive, tmpThread, aborted, workerVars,
                   retActivate, lastCall, prevCall, actCycle, compCycle, nComponents,
                   propContainers, published, updAfterClear, fwd>>
    /\ UNCHANGED sysVars

\* Line 61.
Activate_SetIndex ==
    /\ HostAt("a_index")
    /\ m_deviceIndex' = unObjectId
    /\ hpc' = NextLabel(ActivateOrder, "a_index")
    /\ UNCHANGED <<shim, m_active, m_updateThread, m_eyeTrackingComponent, unObjectId,
                   wasActive, tmpThread, aborted, workerVars, obsVars>>
    /\ UNCHANGED sysVars

\* Lines 63-67: the property container of the device gets the eye gaze property.
Activate_SetProperty ==
    /\ HostAt("a_prop")
    /\ propContainers' = propContainers \cup {m_deviceIndex}
    /\ hpc' = NextLabel(ActivateOrder, "a_prop")
    /\ UNCHANGED <<shimVars, unObjectId, wasActive, tmpThread, aborted, workerVars,
                   shimRet, shimDeactivated, retActivate, lastCall, prevCall, actCycle, fwdCycle,
                   compCycle, nComponents, published, updAfterClear, fwd>>
    /\ UNCHANGED sysVars

\* Line 70: the host creates /eyetracking and writes its handle through the pointer.
Activate_CreateComponent ==
    /\ HostAt("a_create")
    /\ nComponents' = nComponents + 1
    /\ m_eyeTrackingComponent' = nComponents + 1
    /\ compCycle' = actCycle
    /\ hpc' = NextLabel(ActivateOrder, "a_create")
    /\ UNCHANGED <<shim, m_deviceIndex, m_active, m_updateThread, unObjectId, wasActive,
                   tmpThread, aborted, workerVars, shimRet, shimDeactivated, retActivate,
                   lastCall, prevCall, actCycle, fwdCycle, propContainers, published, updAfterClear, fwd>>
    /\ UNCHANGED sysVars

\* Line 77.
Activate_SetActive ==
    /\ HostAt("a_active")
    /\ m_active' = TRUE
    /\ hpc' = NextLabel(ActivateOrder, "a_active")
    /\ UNCHANGED <<shim, m_deviceIndex, m_updateThread, m_eyeTrackingComponent, unObjectId,
                   wasActive, tmpThread, aborted, workerVars, obsVars>>
    /\ UNCHANGED sysVars

FreeThread == CHOOSE t \in Threads : wpc[t] = "none" /\ \A u \in Threads : wpc[u] = "none" => t <= u

\* Line 78, right-hand side: std::thread(&HmdShimDriver::UpdateThread, this) starts a thread.
Activate_SpawnThread ==
    /\ HostAt("a_spawn")
    /\ \E t \in Threads : wpc[t] = "none"
    /\ tmpThread' = FreeThread
    /\ wpc' = [wpc EXCEPT ![FreeThread] = "w_start"]
    /\ wdata' = [wdata EXCEPT ![FreeThread] = ZeroData]
    /\ wcycle' = [wcycle EXCEPT ![FreeThread] = actCycle]
    /\ wstate' = [wstate EXCEPT ![FreeThread] = NoState]
    /\ hpc' = NextLabel(ActivateOrder, "a_spawn")
    /\ UNCHANGED <<shimVars, unObjectId, wasActive, aborted, obsVars>>
    /\ UNCHANGED sysVars

\* Line 78, the move assignment: std::terminate when m_updateThread is still joinable.
Activate_AssignThread ==
    /\ HostAt("a_assign")
    /\ IF m_updateThread # 0
       THEN /\ aborted' = TRUE
            /\ UNCHANGED <<m_updateThread, tmpThread, hpc>>
       ELSE /\ m_updateThread' = tmpThread
            /\ tmpThread' = 0
            /\ hpc' = NextLabel(ActivateOrder, "a_assign")
            /\ UNCHANGED aborted
    /\ UNCHANGED <<shim, m_deviceIndex, m_active, m_eyeTrackingComponent, unObjectId,
                   wasActive, workerVars, obsVars>>
    /\ UNCHANGED sysVars

\* Line 82: what Activate returns, given what the wrapped device returned.
ActivateResult(e) == "VRInitError_None"

Activate_Return ==
    /\ HostAt("a_return")
    /\ retActivate' = ActivateResult(shimRet)
    /\ hpc' = NextLabel(ActivateOrder, "a_return")
    /\ UNCHANGED <<shimVars, unObjectId, wasActive, tmpThread, aborted, workerVars,
                   shimRet, shimDeactivated, lastCall, prevCall, actCycle, fwdCycle, compCycle,
                   nComponents, propContainers, published, updAfterClear, fwd>>
    /\ UNCHANGED sysVars

(* ----------------------- HmdShimDriver::Deactivate --------------------- *)
\* The host calls Deactivate().
Deactivate_Call ==
    /\ HostIdle
    /\ hpc' = DeactivateOrder[1]
    /\ lastCall' = "Deactivate"
    /\ prevCall' = lastCall
    /\ UNCHANGED <<shimVars, unObjectId, wasActive, tmpThread, aborted, workerVars,
                   shimRet, shimDeactivated, retActivate, actCycle, fwdCycle, compCycle,
                   nComponents, propContainers, published, updAfterClear, fwd>>
    /\ UNCHANGED sysVars

\* Line 89: m_active.exchange(false).
Deactivate_Exchange ==
    /\ HostAt("d_exchange")
    /\ wasActive' = m_active
    /\ m_active' = FALSE
    /\ updAfterClear' = 0
    /\ hpc' = NextLabel(DeactivateOrder, "d_exchange")
    /\ UNCHANGED <<shim, m_deviceIndex, m_updateThread, m_eyeTrackingComponent, unObjectId,
                   tmpThread, aborted, workerVars, shimRet, shimDeactivated, retActivate,
                   lastCall, prevCall, actCycle, fwdCycle, compCycle, nComponents, propContainers,
                   published, fwd>>
    /\ UNCHANGED sysVars

\* A join that returns at once, whatever the thread is doing.
ThreadFinished_NoWait(t) == TRUE

\* std::thread::join returns once the thread function has returned.
ThreadFinished(t) == wpc[t] = "w_done"

\* A join attempted whatever the flag was.
ShouldJoin_Always(was) == TRUE

\* Line 89: the join is attempted only when exchange(false) returned true.
ShouldJoin(was) == was

\* Lines 89-91: join only when the flag was set; join blocks until the worker is done.
\* join() on a thread that is not joinable throws std::system_error, which nothing
\* on the way out of Deactivate catches.
Deactivate_Join ==
    /\ HostAt("d_join")
    /\ IF ShouldJoin(wasActive)
       THEN IF m_updateThread = 0
            THEN /\ aborted' = TRUE
                 /\ UNCHANGED <<wpc, m_updateThread, hpc>>
            ELSE /\ ThreadFinished(m_updateThread)
                 /\ wpc' = [wpc EXCEPT ![m_updateThread] = IF @ = "w_done" THEN "none" ELSE @]
                 /\ m_updateThread' = 0
                 /\ hpc' = NextLabel(DeactivateOrder, "d_join")
                 /\ UNCHANGED aborted
       ELSE /\ hpc' = NextLabel(DeactivateOrder, "d_join")
            /\ UNCHANGED <<wpc, m_updateThread, aborted>>
    /\ UNCHANGED <<shim, m_deviceIndex, m_active, m_eyeTrackingComponent, unObjectId,
                   wasActive, tmpThread, wdata, wcycle, wstate, obsVars>>
    /\ UNCHANGED sysVars

\* Line 93.
Deactivate_ResetIndex ==
    /\ HostAt("d_reset")
    /\ m_deviceIndex' = k_unTrackedDeviceIndexInvalid
    /\ hpc' = NextLabel(DeactivateOrder, "d_reset")
    /\ UNCHANGED <<shim, m_active, m_updateThread, m_eyeTrackingComponent, unObjectId,
                   wasActive, tmpThread, aborted, workerVars, obsVars>>
    /\ UNCHANGED sysVars

\* Line 95: m_shimmedDevice->Deactivate().
Deactivate_Forward ==
    /\ HostAt("d_forward")
    /\ shimDeactivated' = TRUE
    /\ hpc' = NextLabel(DeactivateOrder, "d_forward")
    /\ UNCHANGED <<shimVars, unObjectId, wasActive, tmpThread, aborted, workerVars,
                   shimRet, retActivate, lastCall, prevCall, actCycle, fwdCycle, compCycle,
                   nComponents, propContainers, published, updAfterClear, fwd>>
    /\ UNCHANGED sysVars

(* ----------- EnterStandby, GetComponent, GetPose, DebugRequest --------- *)
\* What the host asks for and what the wrapped device answers.
ComponentNames == {"IVRDisplayComponent_003", "IVRCameraComponent_003"}
Components == {"nullptr", "component"}
Poses == {"poseA", "poseB"}
DebugRequests == {"requestA", "requestB"}
DebugResponses == {"", "responseA"}

\* A forward that answers with a constant of its own.
ForwardResult_Dropped(result) == "nullptr"

\* Lines 107 and 111: return m_shimmedDevice->...; lines 103 and 115 return nothing
\* and DebugRequest's answer is what the wrapped device wrote to the buffer.
ForwardResult(result) == result

\* One call of op on the decorator: one call of shimOp on m_shimmedDevice.
PureForward(op, args, result) ==
    /\ HostIdle
    /\ fwd' = [op |-> op, args |-> args, shimOp |-> op, shimArgs |-> args, shimCalls |-> 1,
               shimRet |-> result, ret |-> ForwardResult(result)]
    /\ UNCHANGED <<shimVars, hostVars, workerVars, shimRet, shimDeactivated, retActivate,
                   lastCall, prevCall, actCycle, fwdCycle, compCycle, nComponents,
                   propContainers, published, updAfterClear>>
    /\ UNCHANGED sysVars

\* Lines 102-104.
EnterStandby == PureForward("EnterStandby", "void", "void")
\* Lines 106-108.
GetComponent(pchComponentNameAndVersion, component) ==
    PureForward("GetComponent", pchComponentNameAndVersion, component)
\* Lines 110-112.
GetPose(pose) == PureForward("GetPose", "void", pose)
\* Lines 114-116.
DebugRequest(pchRequest, response) == PureForward("DebugRequest", pchRequest, response)

(* ---------------------- HmdShimDriver::UpdateThread -------------------- *)
WorkerAt(t, l) == ~aborted /\ wpc[t] = l

\* Lines 119-128: the thread starts, reads m_deviceIndex for a container it never
\* uses, and enters the loop.
UpdateThread_Start(t) ==
    /\ WorkerAt(t, "w_start")
    /\ wpc' = [wpc EXCEPT ![t] = UpdateThreadLoop[1]]
    /\ UNCHANGED <<shimVars, hostVars, wdata, wcycle, wstate, obsVars>>
    /\ UNCHANGED sysVars

\* Line 137: sleep_for(5 ms).
UpdateThread_Sleep(t) ==
    /\ WorkerAt(t, "w_sleep")
    /\ wpc' = [wpc EXCEPT ![t] = NextInLoop(UpdateThreadLoop, "w_sleep")]
    /\ UNCHANGED <<shimVars, hostVars, wdata, wcycle, wstate, obsVars>>
    /\ UNCHANGED sysVars

\* Lines 141-143: leave the loop and the thread function when the flag is clear.
UpdateThread_CheckActive(t) ==
    /\ WorkerAt(t, "w_check")
    /\ wpc' = [wpc EXCEPT ![t] = IF ~m_active THEN "w_done"
                                 ELSE NextInLoop(UpdateThreadLoop, "w_check")]
    /\ UNCHANGED <<shimVars, hostVars, wdata, wcycle, wstate, obsVars>>
    /\ UNCHANGED sysVars

\* Lines 147-179: query the sensor service and transform the sample.
UpdateThread_Query(t, s) ==
    /\ WorkerAt(t, "w_query")
    /\ wstate' = [wstate EXCEPT ![t] = [result |-> s.result, TimeInSeconds |-> s.TimeInSeconds]]
    /\ wdata' = [wdata EXCEPT ![t] = SampleTransform(s, @)]
    /\ wpc' = [wpc EXCEPT ![t] = NextInLoop(UpdateThreadLoop, "w_query")]
    /\ UNCHANGED <<shimVars, hostVars, wcycle, obsVars>>
    /\ UNCHANGED sysVars

\* Lines 180-181: UpdateEyeTrackingComponent(m_eyeTrackingComponent, &data, 0.f);
\* the locals of the loop body go out of scope.
UpdateThread_Publish(t) ==
    /\ WorkerAt(t, "w_update")
    /\ wstate' = [wstate EXCEPT ![t] = NoState]
    /\ published' = [handle |-> m_eyeTrackingComponent, data |-> wdata[t],
                     calls |-> Min(published.calls + 1, MaxCount)]
    /\ updAfterClear' = IF m_active THEN updAfterClear ELSE Min(updAfterClear + 1, MaxCount)
    /\ wpc' = [wpc EXCEPT ![t] = NextInLoop(UpdateThreadLoop, "w_update")]
    /\ UNCHANGED <<shimVars, hostVars, wdata, wcycle, shimRet, shimDeactivated,
                   retActivate, lastCall, prevCall, actCycle, fwdCycle, compCycle, nComponents,
                   propContainers, fwd>>
    /\ UNCHANGED sysVars

(* ------------------------------ Driver.cpp ----------------------------- *)
\* vr::IServerTrackedDeviceProvider_Version and another interface name the host may ask for.
InterfaceNames == {"IServerTrackedDeviceProvider_004", "IVRWatchdogProvider_002"}

\* int* pReturnCode: nullptr, or the address of an int of the caller.
ReturnCodePointers == {"nullptr", "out"}

\* Every name taken for the provider interface.
IsProviderInterface_Any(pInterfaceName) == TRUE

\* Line 133: strcmp(vr::IServerTrackedDeviceProvider_Version, pInterfaceName) == 0.
IsProviderInterface(pInterfaceName) == pInterfaceName = "IServerTrackedDeviceProvider_004"

\* Lines 132-143: the factory creates the singleton on the first recognised request
\* and returns thisDriver.get(); for another name it writes the error code through
\* pReturnCode, if there is one, and returns nullptr.
HmdDriverFactory(pInterfaceName, pReturnCode) ==
    LET known == IsProviderInterface(pInterfaceName)
        create == known /\ ~thisDriver
        drivers == IF create THEN nDrivers + 1 ELSE nDrivers
    IN  /\ ~unloaded
        /\ thisDriver' = (thisDriver \/ known)
        /\ nDrivers' = drivers
        /\ lastFactory' = [name |-> pInterfaceName, pReturnCode |-> pReturnCode,
                           created |-> create,
                           ret |-> IF known THEN drivers ELSE 0,
                           returnCode |-> IF ~known /\ pReturnCode # "nullptr"
                                          THEN "VRInitError_Init_InterfaceNotFound"
                                          ELSE "unwritten"]
        /\ UNCHANGED <<shimVars, hostVars, workerVars, obsVars, hookVars, unloaded,
                       m_isLoaded, m_pvr, m_pvrSession, driverContext, nEnv, nSess,
                       envReleases, sessReleases, lastCleanup, initCalls, lastInit>>

VendorIds == {PimaxVendorId, 10462}
ProductIds == {CrystalProductId, CrystalSuperProductId, 16}

\* The identity test with the product id left out.
IsSupportedHmd_VendorOnly(vendor, product) == vendor = PimaxVendorId

\* Line 79: a Pimax Crystal or a Pimax Crystal Super.
IsSupportedHmd(vendor, product) ==
    vendor = PimaxVendorId /\ (product = CrystalProductId \/ product = CrystalSuperProductId)

\* Lines 57-90: how far the gate gets, given what the sensor service answers.
EnvCreated(r1) == r1 = "pvr_success"
SessionCreated(r1, r2) == EnvCreated(r1) /\ r2 = "pvr_success"
InfoRead(r1, r2, r3) == SessionCreated(r1, r2) /\ r3 = "pvr_success"
LoadDriver(r1, r2, r3, vendor, product) == InfoRead(r1, r2, r3) /\ IsSupportedHmd(vendor, product)

\* The gate run on every Init.
ShouldRunGate_Always(isLoaded) == TRUE

\* Line 56: if (!m_isLoaded).
ShouldRunGate(isLoaded) == ~isLoaded

\* Line 101.
InitResult(isLoaded) == IF isLoaded THEN "VRInitError_None" ELSE "VRInitError_Init_HmdNotFound"

\* Lines 49-102. ctx is what VR_INIT_SERVER_DRIVER_CONTEXT's InitServerDriverContext
\* returns (the macro returns it from Init when it is an error); r1, r2, r3 are the
\* results of pvr_initialise, pvr_createSession and pvr_getHmdInfo.
Driver_Init(ctx, r1, r2, r3, vendor, product) ==
    /\ thisDriver
    /\ initCalls < MaxInits
    /\ initCalls' = initCalls + 1
    /\ IF ctx # "VRInitError_None"
       THEN /\ lastInit' = [NoInit EXCEPT !.ctx = ctx, !.ret = ctx]
            /\ UNCHANGED <<m_isLoaded, m_pvr, m_pvrSession, driverContext, nEnv, nSess,
                           g_pvr, g_pvrSession, installs>>
       ELSE /\ driverContext' = TRUE
            /\ IF ~ShouldRunGate(m_isLoaded)
               THEN /\ lastInit' = [NoInit EXCEPT !.ctx = ctx, !.ret = InitResult(m_isLoaded)]
                    /\ UNCHANGED <<m_isLoaded, m_pvr, m_pvrSession, nEnv, nSess,
                                   g_pvr, g_pvrSession, installs>>
               ELSE LET env == EnvCreated(r1)
                        sess == SessionCreated(r1, r2)
                        info == InfoRead(r1, r2, r3)
                        load == LoadDriver(r1, r2, r3, vendor, product)
                        pvr == IF env THEN nEnv + 1 ELSE m_pvr
                        session == IF sess THEN nSess + 1 ELSE m_pvrSession
                    IN  /\ nEnv' = IF env THEN nEnv + 1 ELSE nEnv
                        /\ nSess' = IF sess THEN nSess + 1 ELSE nSess
                        /\ m_pvr' = pvr
                        /\ m_pvrSession' = session
                        \* Lines 92-96 and InstallShimDriverHook (ShimDriverManager.cpp:70-89).
                        /\ g_pvr' = IF load THEN pvr ELSE g_pvr
                        /\ g_pvrSession' = IF load THEN session ELSE g_pvrSession
                        /\ installs' = IF load THEN installs + 1 ELSE installs
                        /\ m_isLoaded' = load
                        /\ lastInit' = [ctx |-> ctx, gate |-> TRUE, r1 |-> r1,
                                        r2 |-> IF env THEN r2 ELSE "none",
                                        r3 |-> IF sess THEN r3 ELSE "none",
                                        vendor |-> IF info THEN vendor ELSE -1,
                                        product |-> IF info THEN product ELSE -1,
                                        installed |-> load,
                                        ret |-> InitResult(load)]
    /\ UNCHANGED <<shimVars, hostVars, workerVars, obsVars, thisDriver, nDrivers, unloaded,
                   lastFactory, envReleases, sessReleases, lastCleanup, ctorProbe,
                   hookCalls, origCalls, nShims, lastHook>>

\* Lines 107-108: the calls Cleanup makes on the sensor service, in order.
CleanupCalls(pvrSession, pvr) ==
    <<[fn |-> "pvr_destroySession", handle |-> pvrSession],
      [fn |-> "pvr_shutdown", handle |-> pvr]>>

\* Lines 104-109: the context is dropped, then the session is destroyed, then the
\* environment is shut down, each with whatever the member holds; the members keep
\* their values.
Cleanup ==
    /\ driverContext' = FALSE
    /\ sessReleases' = [sessReleases EXCEPT ![m_pvrSession] = Min(@ + 1, MaxCount)]
    /\ envReleases' = [envReleases EXCEPT ![m_pvr] = Min(@ + 1, MaxCount)]
    /\ lastCleanup' = CleanupCalls(m_pvrSession, m_pvr)
    /\ UNCHANGED <<m_isLoaded, m_pvr, m_pvrSession, nEnv, nSess, initCalls, lastInit>>

\* The host calls Cleanup on the provider.
Driver_Cleanup ==
    /\ thisDriver
    /\ Cleanup
    /\ UNCHANGED <<shimVars, hostVars, workerVars, obsVars, hookVars, thisDriver, nDrivers,
                   unloaded, lastFactory>>

\* Lines 45-47, run when the plugin is unloaded and thisDriver (line 38) is destroyed:
\* the destructor calls Cleanup.
Driver_Destroy ==
    /\ thisDriver
    /\ Cleanup
    /\ thisDriver' = FALSE
    /\ unloaded' = TRUE
    /\ UNCHANGED <<shimVars, hostVars, workerVars, obsVars, hookVars, nDrivers, lastFactory>>

(* -------------------------- ShimDriverManager.cpp ---------------------- *)
\* Where a return address can lie: in the module of the target vendor driver, in
\* another module, or in no loaded module.
Callers == {"driver_aapvr.dll", "driver_other.dll", "unresolved"}
DeviceClasses == {"TrackedDeviceClass_HMD", "TrackedDeviceClass_Controller"}
DriverHosts == {"hostA", "hostB"}
SerialNumbers == {"serialA", "serialB"}
DeviceIds == {"devA", "devB"}

\* GetModuleHandleExA(FROM_ADDRESS): fails for an address in no loaded module and
\* then leaves NULL in the module.
GetModuleHandleExA(caller) ==
    IF caller = "unresolved" THEN [ok |-> FALSE, module |-> "NULL"]
    ELSE [ok |-> TRUE, module |-> caller]

\* GetModuleHandleA("driver_aapvr.dll"): NULL when that module is not loaded.
GetModuleHandleA(loaded) == IF loaded THEN "driver_aapvr.dll" ELSE "NULL"

\* The comparison made without looking at what GetModuleHandleExA returned.
IsTargetDriver_ResultIgnored(caller, loaded) ==
    GetModuleHandleExA(caller).module = GetModuleHandleA(loaded)

\* Lines 91-99.
IsTargetDriver(caller, loaded) ==
    IF GetModuleHandleExA(caller).ok
    THEN GetModuleHandleExA(caller).module = GetModuleHandleA(loaded)
    ELSE FALSE

\* What the decorator's constructor can do: in HmdShimDriver.cpp:41-52 it never
\* throws; a constructor with a capability probe may throw
\* EyeTrackerNotSupportedException (TRUE).
CapabilityProbe == BOOLEAN
CtorThrows == IF ctorProbe THEN CapabilityProbe ELSE {FALSE}

\* CreateHmdShimDriver answering the exception with no device at all.
CreateHmdShimDriver_ReturnsNull(shimmedDriver, pvr, pvrSession, throws) ==
    IF throws THEN NoDevice ELSE HmdShimDriver(shimmedDriver, pvr, pvrSession)

\* HmdShimDriver.cpp:203-211: the new decorator, or the device itself when the
\* constructor threw.
CreateHmdShimDriver(shimmedDriver, pvr, pvrSession, throws) ==
    IF throws THEN shimmedDriver ELSE HmdShimDriver(shimmedDriver, pvr, pvrSession)

\* Lines 47-56: the device the hook passes on.
ShimmedDriver(caller, loaded, eDeviceClass, pDriver, throws) ==
    IF IsTargetDriver(caller, loaded) /\ eDeviceClass = "TrackedDeviceClass_HMD"
    THEN CreateHmdShimDriver(pDriver, g_pvr, g_pvrSession, throws)
    ELSE pDriver

\* The call of the original with the serial number dropped.
OriginalArgs_SerialLost(driverHost, pchDeviceSerialNumber, eDeviceClass, shimmedDriver) ==
    [driverHost |-> driverHost, serial |-> "", cls |-> eDeviceClass, pDriver |-> shimmedDriver]

\* Lines 58-59: the arguments of the call of the original.
OriginalArgs(driverHost, pchDeviceSerialNumber, eDeviceClass, shimmedDriver) ==
    [driverHost |-> driverHost, serial |-> pchDeviceSerialNumber, cls |-> eDeviceClass,
     pDriver |-> shimmedDriver]

\* Line 63: the hook's result, given the original's.
HookResult(status) == status

\* Lines 35-64: one call of the hooked TrackedDeviceAdded. caller is where the return
\* address lies, loaded whether driver_aapvr.dll is loaded, throws what the
\* constructor does if it runs, status what the original returns.
hooked_TrackedDeviceAdded(driverHost, serial, cls, id, caller, loaded, throws, status) ==
    LET pDriver == Device(id)
        decorate == IsTargetDriver(caller, loaded) /\ cls = "TrackedDeviceClass_HMD"
        shimmedDriver == ShimmedDriver(caller, loaded, cls, pDriver, throws)
        created == shimmedDriver.kind = "HmdShimDriver"
    IN  /\ installs > 0
        /\ hookCalls < MaxHookCalls
        /\ caller = "driver_aapvr.dll" => loaded
        /\ throws => decorate
        /\ hookCalls' = hookCalls + 1
        /\ origCalls' = origCalls + 1
        /\ nShims' = IF created THEN nShims + 1 ELSE nShims
        /\ shim' = IF created /\ shim = NoShim
                   THEN [m_shimmedDevice |-> id, m_pvr |-> shimmedDriver.pvr,
                         m_pvrSession |-> shimmedDriver.session]
                   ELSE shim
        /\ lastHook' = [args |-> [driverHost |-> driverHost, serial |-> serial,
                                  cls |-> cls, pDriver |-> pDriver],
                        caller |-> caller, unsupported |-> throws,
                        passed |-> OriginalArgs(driverHost, serial, cls, shimmedDriver),
                        created |-> created, origCalled |-> 1, origRet |-> status,
                        ret |-> HookResult(status)]
        /\ UNCHANGED <<memberVars, hostVars, workerVars, obsVars, providerVars, g_pvr,
                       g_pvrSession, installs, ctorProbe>>

(* ------------------------------ the system ----------------------------- *)
Next ==
    \/ \E id \in DeviceIndices : Activate_Call(id)
    \/ \E e \in InitErrors : Activate_Forward(e)
    \/ Activate_SetIndex
    \/ Activate_SetProperty
    \/ Activate_CreateComponent
    \/ Activate_SetActive
    \/ Activate_SpawnThread
    \/ Activate_AssignThread
    \/ Activate_Return
    \/ Deactivate_Call
    \/ Deactivate_Exchange
    \/ Deactivate_Join
    \/ Deactivate_ResetIndex
    \/ Deactivate_Forward
    \/ \E t \in Threads : UpdateThread_Start(t)
    \/ \E t \in Threads : UpdateThread_Sleep(t)
    \/ \E t \in Threads : UpdateThread_CheckActive(t)
    \/ \E t \in Threads, s \in SensorSamples : UpdateThread_Query(t, s)
    \/ \E t \in Threads : UpdateThread_Publish(t)

Spec == Init /\ [][Next]_vars

\* The scheduler lets every started worker thread run, the sleep and the sensor call
\* return, and the host thread go on inside Deactivate.
Fairness ==
    /\ \A t \in Threads : WF_vars(UpdateThread_Start(t))
    /\ \A t \in Threads : WF_vars(UpdateThread_Sleep(t))
    /\ \A t \in Threads : WF_vars(UpdateThread_CheckActive(t))
    /\ \A t \in Threads : WF_vars(\E s \in SensorSamples : UpdateThread_Query(t, s))
    /\ \A t \in Threads : WF_vars(UpdateThread_Publish(t))
    /\ WF_vars(Deactivate_Exchange)
    /\ WF_vars(Deactivate_Join)
    /\ WF_vars(Deactivate_ResetIndex)
    /\ WF_vars(Deactivate_Forward)

\* Samples of a successful sensor call: valid ones and ones with no timestamp.
SomeSamples == {s \in SensorSamples : s.result = "pvr_success" /\ s.lx = 1 /\ s.rx = 0}

\* The lifecycle of Spec on one device index, under fair scheduling.
NextLive ==
    \/ Activate_Call(0)
    \/ \E e \in InitErrors : Activate_Forward(e)
    \/ Activate_SetIndex
    \/ Activate_SetProperty
    \/ Activate_CreateComponent
    \/ Activate_SetActive
    \/ Activate_SpawnThread
    \/ Activate_AssignThread
    \/ Activate_Return
    \/ Deactivate_Call
    \/ Deactivate_Exchange
    \/ Deactivate_Join
    \/ Deactivate_ResetIndex
    \/ Deactivate_Forward
    \/ \E t \in Threads : UpdateThread_Start(t)
    \/ \E t \in Threads : UpdateThread_Sleep(t)
    \/ \E t \in Threads : UpdateThread_CheckActive(t)
    \/ \E t \in Threads, s \in SomeSamples : UpdateThread_Query(t, s)
    \/ \E t \in Threads : UpdateThread_Publish(t)

SpecLive == Init /\ [][NextLive]_vars /\ Fairness

\* The lifecycle of Spec on one device index and a wrapped device that activates, with the four pure forwards called
\* between the lifecycle calls, in every lifecycle state.
NextForward ==
    \/ Activate_Call(0)
    \/ Activate_Forward("VRInitError_None")
    \/ Activate_SetIndex
    \/ Activate_SetProperty
    \/ Activate_CreateComponent
    \/ Activate_SetActive
    \/ Activate_SpawnThread
    \/ Activate_AssignThread
    \/ Activate_Return
    \/ Deactivate_Call
    \/ Deactivate_Exchange
    \/ Deactivate_Join
    \/ Deactivate_ResetIndex
    \/ Deactivate_Forward
    \/ \E t \in Threads : UpdateThread_Start(t)
    \/ \E t \in Threads : UpdateThread_Sleep(t)
    \/ \E t \in Threads : UpdateThread_CheckActive(t)
    \/ \E t \in Threads, s \in SomeSamples : UpdateThread_Query(t, s)
    \/ \E t \in Threads : UpdateThread_Publish(t)
    \/ EnterStandby
    \/ \E name \in ComponentNames, component \in Components : GetComponent(name, component)
    \/ \E pose \in Poses : GetPose(pose)
    \/ \E request \in DebugRequests, response \in DebugResponses : DebugRequest(request, response)

SpecForward == Init /\ [][NextForward]_vars

\* What InitServerDriverContext can return.
ContextResults == {"VRInitError_None", "VRInitError_Init_InvalidInterface"}

\* The provider alone, under every answer of the host and of the sensor service.
NextProvider ==
    \/ \E n \in InterfaceNames, rc \in ReturnCodePointers : HmdDriverFactory(n, rc)
    \/ \E ctx \in ContextResults, r1 \in PvrResults, r2 \in PvrResults, r3 \in PvrResults,
          vendor \in VendorIds, product \in ProductIds :
            Driver_Init(ctx, r1, r2, r3, vendor, product)
    \/ Driver_Cleanup
    \/ Driver_Destroy

SpecProvider == InitStart /\ [][NextProvider]_vars

\* The provider brought up on a Pimax Crystal whose service may fail to start, and
\* the hook under every call the vendor drivers can make.
NextHook ==
    \/ \E n \in InterfaceNames, rc \in ReturnCodePointers : HmdDriverFactory(n, rc)
    \/ \E r1 \in PvrResults :
          Driver_Init("VRInitError_None", r1, "pvr_success", "pvr_success",
                      PimaxVendorId, CrystalProductId)
    \/ \E driverHost \in DriverHosts, serial \in SerialNumbers, cls \in DeviceClasses,
          id \in DeviceIds, caller \in Callers, loaded \in BOOLEAN, throws \in CtorThrows,
          status \in BOOLEAN :
            hooked_TrackedDeviceAdded(driverHost, serial, cls, id, caller, loaded, throws, status)

SpecHook == InitStart /\ [][NextHook]_vars
SpecProbe == InitProbe /\ [][NextHook]_vars

\* The decorated HMD driven through its lifecycle while the host may call Cleanup on
\* the provider at any moment and the target driver may register further devices.
NextTeardown ==
    \/ Activate_Call(0)
    \/ Activate_Forward("VRInitError_None")
    \/ Activate_SetIndex
    \/ Activate_SetProperty
    \/ Activate_CreateComponent
    \/ Activate_SetActive
    \/ Activate_SpawnThread
    \/ Activate_AssignThread
    \/ Activate_Return
    \/ Deactivate_Call
    \/ Deactivate_Exchange
    \/ Deactivate_Join
    \/ Deactivate_ResetIndex
    \/ Deactivate_Forward
    \/ \E t \in Threads : UpdateThread_Start(t)
    \/ \E t \in Threads : UpdateThread_Sleep(t)
    \/ \E t \in Threads : UpdateThread_CheckActive(t)
    \/ \E t \in Threads, s \in SomeSamples : UpdateThread_Query(t, s)
    \/ \E t \in Threads : UpdateThread_Publish(t)
    \/ Driver_Cleanup
    \/ \E cls \in DeviceClasses :
          hooked_TrackedDeviceAdded("hostA", "serialB", cls, "devB", "driver_aapvr.dll",
                                    TRUE, FALSE, TRUE)

SpecTeardown == Init /\ [][NextTeardown]_vars

(* ------------------------------- claims -------------------------------- *)
\* A worker thread is running: it was started and its thread function has not returned.
WorkerRunning(t) == wpc[t] \notin {"none", "w_done"}
AnyWorkerRunning == \E t \in Threads : WorkerRunning(t)
NoWorker == m_updateThread = 0 /\ \A t \in Threads : wpc[t] = "none"
\* The device is between an Activate call and the matching Deactivate call.
BetweenActivateAndDeactivate == lastCall = "Activate"

\* C1, as stated: in every reachable state the worker runs iff m_active is true iff
\* the device is between Activate and Deactivate. (While a call is executing, whether
\* the device counts as between the two calls is left open: only the flag and the
\* worker are compared there.)
C1_InEveryState ==
    /\ AnyWorkerRunning <=> m_active
    /\ hpc = "idle" => (m_active <=> BetweenActivateAndDeactivate)

\* C1, amended: whenever no Activate or Deactivate call is in progress (every call
\* the host issued has returned), the worker runs iff m_active is true iff the
\* device is between Activate and Deactivate.
C1_BetweenCalls ==
    hpc = "idle" => /\ AnyWorkerRunning <=> m_active
                    /\ m_active <=> BetweenActivateAndDeactivate

\* C1's case: the host is between calls in the second activation, the worker running.
C1_Witness ==
    /\ hpc = "idle" /\ actCycle = 2 /\ m_active /\ lastCall = "Activate"
    /\ m_updateThread # 0 /\ WorkerRunning(m_updateThread)

\* C2, as stated: the worker never calls UpdateEyeTrackingComponent after Deactivate
\* has cleared the activity flag.
C2_NoUpdateAfterClear == updAfterClear = 0

\* Deactivate's join has returned and the call, or the time after it, goes on.
JoinReturned == lastCall = "Deactivate" /\ hpc \in {"d_reset", "d_forward", "idle"}

\* C2, amended: after Deactivate has cleared the flag the worker makes at most one more
\* UpdateEyeTrackingComponent call (the cycle that passed its check before the flag
\* was cleared), and none once Deactivate's join has returned.
C2_AtMostTheCycleInFlight ==
    /\ updAfterClear <= 1
    /\ JoinReturned => \A t \in Threads : wpc[t] = "none"

\* C2's case: the flag was set, the worker published once more after it was cleared,
\* and the join has returned.
C2_Witness == hpc = "d_reset" /\ wasActive /\ updAfterClear = 1 /\ NoWorker

\* C3: when the flag was true the worker has exited and is joined before the index is
\* reset and before the wrapped device's Deactivate is invoked; that forward is the
\* last effect of Deactivate, and no worker step follows it.
C3_JoinThenResetThenForward ==
    [][ /\ (m_deviceIndex' # m_deviceIndex /\ lastCall = "Deactivate" /\ wasActive) => NoWorker
        /\ (shimDeactivated' /\ ~shimDeactivated) =>
              /\ wasActive => NoWorker
              /\ m_deviceIndex = k_unTrackedDeviceIndexInvalid
              /\ hpc' = "idle"
        /\ shimDeactivated => (wpc' = wpc /\ published' = published) ]_vars

\* C3's case: a Deactivate that found the flag set has returned, after the worker had
\* published samples.
C3_Witness ==
    /\ hpc = "idle" /\ lastCall = "Deactivate" /\ wasActive /\ shimDeactivated
    /\ published.calls > 0 /\ NoWorker

\* C4: a worker exists only after the Activate call that spawned it has forwarded to
\* the wrapped device and acquired the input component, so the handle a worker reads
\* was set by that Activate call (or, when Activate is entered again while the worker
\* runs, by the later one), never by an earlier call and never the initial 0.
C4_ComponentBeforeSpawn ==
    \A t \in Threads : wpc[t] # "none" =>
        /\ wcycle[t] = actCycle => (fwdCycle = actCycle /\ compCycle = actCycle)
        /\ compCycle >= wcycle[t] /\ fwdCycle >= wcycle[t]
        /\ m_eyeTrackingComponent = nComponents /\ m_eyeTrackingComponent # 0

\* C4's case: in the second activation the worker is about to pass the handle of that
\* activation to UpdateEyeTrackingComponent.
C4_Witness ==
    \E t \in Threads : /\ wpc[t] = "w_update" /\ wcycle[t] = 2 /\ actCycle = 2
                       /\ compCycle = 2 /\ m_eyeTrackingComponent = 2

\* C5, as stated: Activate returns exactly the code the wrapped device's Activate returned.
C5_ReturnsWrappedCode ==
    (hpc = "idle" /\ lastCall = "Activate") => retActivate = shimRet

\* C6, as stated: when the wrapped device's Activate failed, the decorator is Inactive
\* after Activate: flag false, no worker, no input component created by this call.
C6_InactiveOnFailure ==
    (hpc = "idle" /\ lastCall = "Activate" /\ shimRet # "VRInitError_None") =>
        /\ ~m_active
        /\ NoWorker
        /\ compCycle < actCycle
\* C7: the device passed on to the original is a decorator of the caller's device when
\* the return address lies in driver_aapvr.dll and the class is HMD; for another module,
\* an unresolved address or another class it is the caller's device itself and no
\* decorator is created.
C7_TargetAttribution ==
    hookCalls > 0 =>
        IF lastHook.caller = "driver_aapvr.dll" /\ lastHook.args.cls = "TrackedDeviceClass_HMD"
        THEN /\ lastHook.passed.pDriver = HmdShimDriver(lastHook.args.pDriver, g_pvr, g_pvrSession)
             /\ lastHook.created
        ELSE /\ lastHook.passed.pDriver = lastHook.args.pDriver
             /\ ~lastHook.created

\* C7's case: of two calls one came from the target and was decorated, and the last
\* one, an HMD registered from an unresolved address, was passed through.
C7_Witness ==
    /\ hookCalls = 2 /\ nShims = 1
    /\ lastHook.caller = "unresolved" /\ lastHook.args.cls = "TrackedDeviceClass_HMD"
    /\ lastHook.passed.pDriver = lastHook.args.pDriver

C9_ForwardsToOriginal ==
    /\ origCalls = hookCalls
    /\ hookCalls > 0 =>
        /\ lastHook.origCalled = 1
        /\ lastHook.passed.driverHost = lastHook.args.driverHost
        /\ lastHook.passed.serial = lastHook.args.serial
        /\ lastHook.passed.cls = lastHook.args.cls
        /\ lastHook.passed.pDriver \in
              {lastHook.args.pDriver, HmdShimDriver(lastHook.args.pDriver, g_pvr, g_pvrSession)}
        /\ lastHook.ret = lastHook.origRet

\* C9's case: a second call, decorated, which the original refused.
C9_Witness ==
    /\ hookCalls = 2 /\ lastHook.created /\ ~lastHook.origRet /\ ~lastHook.ret
    /\ lastHook.args.serial = "serialB" /\ lastHook.args.driverHost = "hostB"

\* Whether the hook is installed.
HookInstalled == installs > 0

\* C10: an Init that runs the gate installs the hook iff pvr_initialise,
\* pvr_createSession and pvr_getHmdInfo all succeed and the identity is vendor 0x34A4
\* with product 0x0012 or 0x0040; otherwise the hook is not installed and Init returns
\* a failure code; Init returns success only when the hook is installed.
C10_HardwareSessionGate ==
    initCalls > 0 =>
        /\ lastInit.gate =>
              (lastInit.installed <=>
                  /\ lastInit.r1 = "pvr_success"
                  /\ lastInit.r2 = "pvr_success"
                  /\ lastInit.r3 = "pvr_success"
                  /\ lastInit.vendor = 13476
                  /\ lastInit.product \in {18, 64})
        /\ lastInit.installed => (lastInit.gate /\ HookInstalled)
        /\ (lastInit.gate /\ ~lastInit.installed) =>
              (~HookInstalled /\ lastInit.ret # "VRInitError_None")
        /\ lastInit.ret = "VRInitError_None" => (HookInstalled /\ m_isLoaded)
        /\ HookInstalled <=> m_isLoaded

\* C10's case: a first Init failed at the gate and the second one, on a Crystal Super,
\* installed the hook.
C10_Witness ==
    /\ initCalls = 2 /\ lastInit.gate /\ lastInit.installed /\ lastInit.product = 64
    /\ lastInit.ret = "VRInitError_None" /\ installs = 1

\* C11: in a Deactivate that directly follows another Deactivate the flag is false
\* from the start, exchange(false) returns false, no join is attempted (no exception,
\* no wait: there is no thread), the flag stays false and from the reset on the
\* device index is the invalid sentinel.
C11_SecondDeactivateIsSafe ==
    (lastCall = "Deactivate" /\ prevCall = "Deactivate") =>
        /\ ~aborted
        /\ ~m_active
        /\ NoWorker
        /\ hpc # "d_exchange" => ~wasActive
        /\ hpc \in {"d_forward", "idle"} => m_deviceIndex = k_unTrackedDeviceIndexInvalid

\* C11's case: after an activation that published samples, a second Deactivate in a
\* row has returned.
C11_Witness ==
    /\ lastCall = "Deactivate" /\ prevCall = "Deactivate" /\ hpc = "idle"
    /\ actCycle > 0 /\ published.calls > 0 /\ shimDeactivated /\ ~wasActive

\* The host has not called Activate twice with no Deactivate in between.
RoundTrips == ~(lastCall = "Activate" /\ prevCall = "Activate")

\* C12: in a run of Activate/Deactivate round trips, once a Deactivate has returned no
\* worker thread is left (none running, none joinable, no temporary), and at every
\* point the device index is the value passed to the current Activate or the sentinel.
C12_RoundTrip ==
    RoundTrips =>
        /\ (hpc = "idle" /\ lastCall = "Deactivate") => (NoWorker /\ tmpThread = 0)
        /\ m_deviceIndex \in {unObjectId, k_unTrackedDeviceIndexInvalid}

\* C12's case: the second round trip, with another index than the first, is over.
C12_Witness ==
    /\ RoundTrips /\ hpc = "idle" /\ lastCall = "Deactivate" /\ prevCall = "Activate"
    /\ actCycle = 2 /\ wasActive /\ propContainers = {0, 1} /\ unObjectId = 1

\* The fallback sample: the forward vector, all flags false.
FallbackData == [vGazeTarget |-> <<0, 0, -FixedOne>>, bValid |-> FALSE, bTracked |-> FALSE,
                 bActive |-> FALSE]
\* The sample of this cycle is invalid: the call failed or the timestamp is not positive.
InvalidSample(t) ==
    wstate[t] # NoState /\ (wstate[t].result # "pvr_success" \/ wstate[t].TimeInSeconds <= 0)

\* C13: a cycle whose sensor sample is invalid holds, and then publishes, the forward
\* vector (0, 0, -1) with valid, tracked and active false, whatever earlier cycles
\* published.
C13_InvalidSampleFallback ==
    [][ \A t \in Threads :
          /\ (wpc[t] = "w_update" /\ InvalidSample(t)) => wdata[t] = FallbackData
          /\ (wpc[t] = "w_update" /\ wpc'[t] # "w_update" /\ InvalidSample(t)) =>
                (published'.data = FallbackData /\ published'.calls > 0) ]_vars

\* C13's case: the earlier cycle published a valid gaze, this cycle's sample is
\* invalid (a successful call with a zero timestamp) and the fallback is about to go out.
C13_Witness ==
    \E t \in Threads : /\ wpc[t] = "w_update" /\ InvalidSample(t)
                       /\ wstate[t].result = "pvr_success"
                       /\ published.data.bValid /\ published.data.vGazeTarget[1] # 0
                       /\ wdata[t] = FallbackData

\* C19, as stated: there is never more than one worker thread, and Activate never
\* assigns a new thread to a handle that still holds a joinable thread (the move
\* assignment that does so calls std::terminate).
C19_AtMostOneWorker ==
    /\ Cardinality({t \in Threads : wpc[t] # "none"}) <= 1
    /\ ~aborted

\* C14: each EnterStandby, GetComponent, GetPose and DebugRequest makes one call of
\* the same operation on the wrapped device with the arguments it got, hands back what
\* that call answered, and leaves the flag, the index, the component handle, the
\* thread handle and the worker as they were, in whatever lifecycle state it is called.
C14_PureForwards ==
    [][ fwd' # fwd =>
          /\ fwd'.shimOp = fwd'.op
          /\ fwd'.shimArgs = fwd'.args
          /\ fwd'.shimCalls = 1
          /\ fwd'.ret = fwd'.shimRet
          /\ memberVars' = memberVars
          /\ workerVars' = workerVars
          /\ hostVars' = hostVars ]_vars

\* C14's case: with the decorator Active and its worker about to publish, GetComponent
\* handed back the component the wrapped device answered.
C14_Witness ==
    /\ fwd.op = "GetComponent" /\ fwd.args = "IVRCameraComponent_003" /\ fwd.ret = "component"
    /\ m_active /\ hpc = "idle" /\ m_updateThread # 0 /\ wpc[m_updateThread] = "w_update"

\* C18: under fair scheduling, a Deactivate called on an Active decorator returns:
\* the worker sees the cleared flag at its next check after the sleep, leaves the
\* loop, the join completes and no worker is left.
C18_DeactivateReturns ==
    (hpc = "d_exchange" /\ m_active) ~> (hpc = "idle" /\ lastCall = "Deactivate" /\ NoWorker)

\* C18's case: the flag is cleared, the host waits in the join and the worker, still
\* in its loop, is asleep.
C18_Witness ==
    /\ hpc = "d_join" /\ wasActive /\ ~m_active
    /\ m_updateThread # 0 /\ wpc[m_updateThread] = "w_sleep"

\* C15, as stated: Cleanup releases the session before the environment and makes no
\* release call for a handle that was never created (a null handle).
C15_NoReleaseOnNull ==
    lastCleanup # <<>> =>
        /\ \A i \in 1..Len(lastCleanup) : lastCleanup[i].handle # 0
        /\ \A i, j \in 1..Len(lastCleanup) :
              (lastCleanup[i].fn = "pvr_destroySession" /\ lastCleanup[j].fn = "pvr_shutdown")
                  => i < j

\* C16: InstallShimDriverHook runs at most once over any sequence of Init and Cleanup
\* calls, and once it has run neither the binding nor g_pvr and g_pvrSession is
\* written again.
C16_InstalledOnce ==
    [][ /\ installs' <= 1
        /\ installs > 0 => /\ installs' = installs
                           /\ g_pvr' = g_pvr
                           /\ g_pvrSession' = g_pvrSession ]_vars

\* C16's case: the hook was installed by a first Init, Cleanup ran, and a second Init
\* returned success without running the gate again.
C16_Witness ==
    /\ initCalls = 2 /\ installs = 1 /\ ~lastInit.gate /\ lastInit.ret = "VRInitError_None"
    /\ lastCleanup # <<>> /\ g_pvr = 1 /\ g_pvrSession = 1

\* C17: a call with the provider interface name returns the one Driver object, which
\* is created by the first such call only; a call with another name returns nullptr,
\* writes VRInitError_Init_InterfaceNotFound through pReturnCode when there is one,
\* and creates nothing.
C17_FactorySingleton ==
    /\ nDrivers <= 1
    /\ thisDriver => nDrivers = 1
    /\ lastFactory # NoFactory =>
          IF lastFactory.name = "IServerTrackedDeviceProvider_004"
          THEN /\ lastFactory.ret = 1
               /\ nDrivers = 1
               /\ lastFactory.returnCode = "unwritten"
          ELSE /\ lastFactory.ret = 0
               /\ ~lastFactory.created
               /\ lastFactory.returnCode = IF lastFactory.pReturnCode = "nullptr"
                                           THEN "unwritten"
                                           ELSE "VRInitError_Init_InterfaceNotFound"

\* C17's case: a later call with the provider interface name, made after Init, got the
\* object the first call had created.
C17_Witness ==
    /\ lastFactory.name = "IServerTrackedDeviceProvider_004" /\ ~lastFactory.created
    /\ lastFactory.ret = 1 /\ initCalls > 0 /\ ~unloaded

\* C20, as stated: every handle pvr_initialise or pvr_createSession created is released
\* exactly once: never twice, never dropped by a later Init while unreleased, and all
\* are released once the provider is destroyed.
C20_ReleasedExactlyOnce ==
    /\ \A h \in 1..nEnv :
          /\ envReleases[h] <= 1
          /\ h # m_pvr => envReleases[h] = 1
          /\ unloaded => envReleases[h] = 1
    /\ \A h \in 1..nSess :
          /\ sessReleases[h] <= 1
          /\ h # m_pvrSession => sessReleases[h] = 1
          /\ unloaded => sessReleases[h] = 1

\* Cleanup has destroyed the session, or shut down the environment, behind the handle.
SessionReleased(session) == sessReleases[session] > 0
EnvReleased(pvr) == envReleases[pvr] > 0

\* C21, as stated: no worker cycle queries the sensor service (pvr_getTimeSeconds on
\* m_pvr, pvr_getEyeTrackingInfo on m_pvrSession) with a handle Cleanup has already
\* released, and the hook constructs no decorator with such a handle.
C21_NoUseAfterRelease ==
    [][ /\ \A t \in Threads :
              (wpc[t] = "w_query" /\ wpc'[t] # "w_query") =>
                  (~SessionReleased(shim.m_pvrSession) /\ ~EnvReleased(shim.m_pvr))
        /\ (hookCalls' # hookCalls /\ lastHook'.created) =>
              /\ ~SessionReleased(lastHook'.passed.pDriver.session)
              /\ ~EnvReleased(lastHook'.passed.pDriver.pvr) ]_vars
====
